---- MODULE Spec2Model ----
(***************************************************************************)
(* State machine of the camera screen component CameraExample               *)
(* (src/src/application/CameraApp.tsx).                                     *)
(*                                                                          *)
(* The React state of the component (isCaptured, currImage, classesInfo,    *)
(* activeModelInfo) is the state of the committed render.  Every async      *)
(* handler (handleFrame, handleCapture) is cut at its awaits: one action    *)
(* per run-to-completion segment, the awaited call resolving or rejecting.  *)
(* The effect of useEffect(..., [isCaptured]) is a step of its own: React   *)
(* runs passive effects after the commit, and before the next render.       *)
(***************************************************************************)
EXTENDS Integers, Sequences, FiniteSets, TLC

(* ---------------------------------------------------------------- bounds *)

\* Camera images (live frames and photos) handed to the component in a run.
MaxImages == 2

\* Size of the model registry ImageClassificationModels (../Models); the
\* classifier indexes entries 0..2, so the registry holds at least three.
NumModels == 3

\* for (let i = 0; i < 3; i++): the classifier runs the first three models.
NumClassified == 3

Images == 1..MaxImages
Models == 0..(NumModels - 1)

VARIABLES
    isCaptured,       \* useState<Boolean>(false)
    currImage,        \* useState<string>('')
    classesInfo,      \* useState<Array<{className, confidence, metrics}>>([])
    activeModelInfo,  \* useState<ModelInfo>(ImageClassificationModels[0]), as registry index
    backHandlers,     \* hardwareBackPress listeners: the isCaptured each backAction closed over
    alertFrom,        \* <<>>, or while the 'Hold on!' alert shows: the state it was raised in
    exited,           \* BackHandler.exitApp() was called
    mounted,          \* the screen is mounted
    tasks,            \* per image: the handler invocation that owns it
    nImages,          \* images handed out so far
    outputs,          \* what MobileModel.execute reports, per model and image
    last              \* the last handler step taken (observation only)

vars == <<isCaptured, currImage, classesInfo, activeModelInfo, backHandlers,
          alertFrom, exited, mounted, tasks, nImages, outputs, last>>

ui == <<isCaptured, currImage, classesInfo, activeModelInfo>>

\* The 'Hold on!' alert is showing.
dialogOpen == alertFrom # <<>>

(* ------------------------------------------------------------ data model *)

\* An image not handed out yet.
NoTask == [kind |-> "none", pc |-> "none", released |-> 0, wasCaptured |-> FALSE,
           processed |-> FALSE, model |-> 0, executed |-> <<>>, classes |-> <<>>,
           shown |-> FALSE]

\* What `last` records: the step, the isCaptured of the committed render when
\* it ran, and the value the handler returned (FALSE where it returns none).
Event(op, ret) ==
    [op |-> op, wasCaptured |-> isCaptured, returned |-> ret]

\* MobileModel.execute(model, {image}): the {maxIdx, confidence} the model m
\* reports for image i, a fixed function of the model and the image; a
\* confidence c in [0, 1] is held as the integer c * 10000.
Execute(m, i) == outputs[m][i]

\* The confidences a model can report: 0.0000, 0.0001, ..., 1.0000.
Confidences == 0..10000

\* The reports of the models in a run of the screen.
FixedOutputs ==
    [m \in Models |-> [i \in Images |->
        [maxIdx |-> (m + i) % 2,
         confidence |-> (2345 * (m + 1) + 1111 * i) % 10001]]]

\* const MobileNetV3Classes = require('../MobileNetV3Classes'): index -> label.
MobileNetV3Classes(maxIdx) == "class" \o ToString(maxIdx)

\* The rounding done with Math.floor.
RoundConfidenceFloor(confidence) == confidence \div 10

\* Math.round(confidence * 1000) / 10, the result held in tenths of a percent
\* (Math.round rounds halves up).
RoundConfidence(confidence) == (confidence + 5) \div 10

\* await ImageUtil.toFile(img): the path of the file written for image i.
toFile(i) == "/tmp/image" \o ToString(i)

\* React drops state updates of an unmounted component.
SetState(old, new) == IF mounted THEN new ELSE old

\* The effect's dependency [isCaptured] differs from the one it last ran with.
EffectPending ==
    mounted /\ (IF backHandlers = <<>> THEN TRUE
                ELSE backHandlers[Len(backHandlers)] # isCaptured)

\* The effect without its cleanup: the old listener stays registered.
RunBackEffectNoCleanup == Append(backHandlers, isCaptured)

\* The effect body and the cleanup of its previous run: backHandler.remove()
\* of the old listener, then addEventListener of a backAction closing over
\* the isCaptured of the committed render.
RunBackEffect == <<isCaptured>>

\* React runs pending passive effects before it renders again.
FlushPassiveEffects == IF EffectPending THEN RunBackEffect ELSE backHandlers

Alive == ~exited

(* ------------------------------------------------------------------ Init *)

Init ==
    /\ isCaptured = FALSE
    /\ currImage = ""
    /\ classesInfo = <<>>
    /\ activeModelInfo = 0
    /\ backHandlers = <<>>
    /\ alertFrom = <<>>
    /\ exited = FALSE
    /\ mounted = TRUE
    /\ tasks = [i \in Images |-> NoTask]
    /\ nImages = 0
    /\ outputs = FixedOutputs
    /\ last = Event("mount", FALSE)

(* --------------------------------------------------------------- actions *)

\* useEffect(() => {...addEventListener...; return () => backHandler.remove()}, [isCaptured])
UseEffect ==
    /\ Alive /\ EffectPending
    /\ backHandlers' = RunBackEffect
    /\ last' = Event("effect", FALSE)
    /\ UNCHANGED <<ui, alertFrom, exited, mounted, tasks, nImages>>
    /\ UNCHANGED outputs

\* handlePressReturn that leaves the image path in place.
handlePressReturnKeepsImage ==
    /\ classesInfo' = SetState(classesInfo, <<>>)
    /\ currImage' = currImage
    /\ isCaptured' = SetState(isCaptured, FALSE)

\* handlePressReturn: setClassesInfo([]); setCurrImage(''); setIsCaptured(false)
handlePressReturn ==
    /\ classesInfo' = SetState(classesInfo, <<>>)
    /\ currImage' = SetState(currImage, "")
    /\ isCaptured' = SetState(isCaptured, FALSE)

\* Submit wired to the Return handler.
handleSubmitReturns == handlePressReturn

\* handleSubmit = () => {}
handleSubmit ==
    UNCHANGED <<classesInfo, currImage, isCaptured>>

\* The Return button of the Captured branch: onPress={handlePressReturn}
PressReturn ==
    /\ Alive /\ mounted /\ isCaptured /\ ~dialogOpen
    /\ handlePressReturn
    /\ backHandlers' = FlushPassiveEffects
    /\ last' = Event("return", FALSE)
    /\ UNCHANGED <<activeModelInfo, alertFrom, exited, mounted, tasks, nImages>>
    /\ UNCHANGED outputs

\* The Submit button of the Captured branch: onPress={handleSubmit}
PressSubmit ==
    /\ Alive /\ mounted /\ isCaptured /\ ~dialogOpen
    /\ handleSubmit
    /\ last' = Event("submit", FALSE)
    /\ UNCHANGED <<activeModelInfo, backHandlers, alertFrom, exited, mounted,
                   tasks, nImages>>
    /\ UNCHANGED outputs

\* backAction whose alert branch does not report the press as handled.
backActionUnhandled(closure) ==
    IF closure
    THEN /\ handlePressReturn
         /\ alertFrom' = alertFrom
         /\ last' = Event("back", TRUE)
    ELSE /\ UNCHANGED <<classesInfo, currImage, isCaptured>>
         /\ alertFrom' = ui
         /\ last' = Event("back", FALSE)

\* backAction of the listener registered last, closing over `closure`:
\*   if (isCaptured) { handlePressReturn(); return true; }
\*   else { Alert.alert(...); return true; }
backAction(closure) ==
    IF closure
    THEN /\ handlePressReturn
         /\ alertFrom' = alertFrom
         /\ last' = Event("back", TRUE)
    ELSE /\ UNCHANGED <<classesInfo, currImage, isCaptured>>
         /\ alertFrom' = ui
         /\ last' = Event("back", TRUE)

\* A hardware back press, delivered to the registered listener.
BackPress ==
    /\ Alive /\ mounted /\ ~dialogOpen /\ backHandlers # <<>>
    /\ backAction(backHandlers[Len(backHandlers)])
    /\ backHandlers' = IF isCaptured' # isCaptured \/ classesInfo' # classesInfo
                          \/ currImage' # currImage
                       THEN FlushPassiveEffects ELSE backHandlers
    /\ UNCHANGED <<activeModelInfo, exited, mounted, tasks, nImages>>
    /\ UNCHANGED outputs

\* {text: 'Cancel', onPress: () => null, style: 'cancel'}
DialogCancel ==
    /\ Alive /\ dialogOpen
    /\ alertFrom' = <<>>
    /\ last' = Event("cancel", FALSE)
    /\ UNCHANGED <<ui, backHandlers, exited, mounted, tasks, nImages>>
    /\ UNCHANGED outputs

\* {text: 'YES', onPress: () => BackHandler.exitApp()}
DialogConfirm ==
    /\ Alive /\ dialogOpen
    /\ alertFrom' = <<>>
    /\ exited' = TRUE
    /\ last' = Event("confirm", FALSE)
    /\ UNCHANGED <<ui, backHandlers, mounted, tasks, nImages>>
    /\ UNCHANGED outputs

\* ModelSelector of the LivePreview branch: onSelectModelInfo={setActiveModelInfo}
setActiveModelInfo(m) ==
    /\ activeModelInfo' = SetState(activeModelInfo, m)
    /\ UNCHANGED <<isCaptured, currImage, classesInfo>>

SelectModel ==
    /\ Alive /\ mounted /\ ~isCaptured /\ ~dialogOpen
    /\ \E m \in Models \ {activeModelInfo} :
         /\ setActiveModelInfo(m)
         /\ last' = Event("select", FALSE)
    /\ backHandlers' = FlushPassiveEffects
    /\ UNCHANGED <<alertFrom, exited, mounted, tasks, nImages>>
    /\ UNCHANGED outputs

\* handleFrame without the early return of the Captured screen.
handleFrameNoGuard(i, closure) ==
    tasks' = [tasks EXCEPT ![i] =
        [NoTask EXCEPT !.kind = "frame", !.pc = "process", !.processed = TRUE,
                       !.wasCaptured = isCaptured, !.model = activeModelInfo]]

\* handleFrame up to its first await, for the frame image i, the callback
\* closing over `closure` (the isCaptured of the render that made it):
\*   if (isCaptured) { image.release(); return; }
\*   await processImage(image);
handleFrame(i, closure) ==
    tasks' = [tasks EXCEPT ![i] =
        IF closure
        THEN [NoTask EXCEPT !.kind = "frame", !.pc = "done", !.released = 1,
                            !.wasCaptured = isCaptured]
        ELSE [NoTask EXCEPT !.kind = "frame", !.pc = "process", !.processed = TRUE,
                            !.wasCaptured = isCaptured, !.model = activeModelInfo]]

\* A live frame is delivered to the handleFrame of the committed render.
FrameArrives ==
    /\ Alive /\ mounted /\ nImages < MaxImages
    /\ nImages' = nImages + 1
    /\ handleFrame(nImages + 1, isCaptured)
    /\ last' = Event("frame", FALSE)
    /\ UNCHANGED <<ui, backHandlers, alertFrom, exited, mounted>>
    /\ UNCHANGED outputs

\* processImage(image) resolved: image.release()
FrameProcessed(i) ==
    /\ Alive /\ tasks[i].kind = "frame" /\ tasks[i].pc = "process"
    /\ tasks' = [tasks EXCEPT ![i].pc = "done", ![i].released = @ + 1]
    /\ last' = Event("frameProcessed", FALSE)
    /\ UNCHANGED <<ui, backHandlers, alertFrom, exited, mounted, nImages>>
    /\ UNCHANGED outputs

\* processImage(image) rejected: handleFrame ends at the await.
FrameFailed(i) ==
    /\ Alive /\ tasks[i].kind = "frame" /\ tasks[i].pc = "process"
    /\ tasks' = [tasks EXCEPT ![i].pc = "failed"]
    /\ last' = Event("frameFailed", FALSE)
    /\ UNCHANGED <<ui, backHandlers, alertFrom, exited, mounted, nImages>>
    /\ UNCHANGED outputs

\* The classifier running the selected model in every pass.
ClassifierModelActive(i) == activeModelInfo

\* ImageClassificationModels[i].model: the model of the classifier's i-th pass.
ClassifierModel(i) == i

\* handleCapture up to its first await, for the photo i:
\*   const imagePath = 'file://' + (await ImageUtil.toFile(img));
handleCapture(i) ==
    tasks' = [tasks EXCEPT ![i] =
        [NoTask EXCEPT !.kind = "photo", !.pc = "toFile", !.wasCaptured = isCaptured]]

\* The capture button of the Camera, rendered in the LivePreview branch only:
\* onCapture={handleCapture}
Capture ==
    /\ Alive /\ mounted /\ ~isCaptured /\ ~dialogOpen /\ nImages < MaxImages
    /\ nImages' = nImages + 1
    /\ handleCapture(nImages + 1)
    /\ last' = Event("capture", FALSE)
    /\ UNCHANGED <<ui, backHandlers, alertFrom, exited, mounted>>
    /\ UNCHANGED outputs

\* handleCapture without setIsCaptured(true) ahead of the classifier.
handleCaptureWrittenNotShown(i) ==
    /\ isCaptured' = isCaptured
    /\ currImage' = SetState(currImage, "file://" \o toFile(i))
    /\ classesInfo' = classesInfo
    /\ tasks' = [tasks EXCEPT ![i].pc = "exec",
                              ![i].executed = <<ClassifierModel(0)>>]

\* ImageUtil.toFile resolved; handleCapture runs to the classifier's first await:
\*   setIsCaptured(true); setCurrImage(imagePath); classifier(img) ->
\*   MobileModel.execute(ImageClassificationModels[0].model, {image})
handleCaptureWritten(i) ==
    /\ isCaptured' = SetState(isCaptured, TRUE)
    /\ currImage' = SetState(currImage, "file://" \o toFile(i))
    /\ classesInfo' = classesInfo
    /\ tasks' = [tasks EXCEPT ![i].pc = "exec", ![i].shown = TRUE,
                              ![i].executed = <<ClassifierModel(0)>>]

CaptureWritten(i) ==
    /\ Alive /\ tasks[i].kind = "photo" /\ tasks[i].pc = "toFile"
    /\ handleCaptureWritten(i)
    /\ backHandlers' = IF isCaptured' # isCaptured \/ currImage' # currImage
                       THEN FlushPassiveEffects ELSE backHandlers
    /\ last' = Event("captureWritten", FALSE)
    /\ UNCHANGED <<activeModelInfo, alertFrom, exited, mounted, nImages>>
    /\ UNCHANGED outputs

\* ImageUtil.toFile rejected: handleCapture ends at the await.
CaptureWriteFailed(i) ==
    /\ Alive /\ tasks[i].kind = "photo" /\ tasks[i].pc = "toFile"
    /\ tasks' = [tasks EXCEPT ![i].pc = "failed"]
    /\ last' = Event("captureWriteFailed", FALSE)
    /\ UNCHANGED <<ui, backHandlers, alertFrom, exited, mounted, nImages>>
    /\ UNCHANGED outputs

\* A classifier entry labelled by the model's position, not by maxIdx.
ClassEntryLabelOfModel(o, m, i) ==
    [className |-> MobileNetV3Classes(m),
     confidence |-> RoundConfidence(o.confidence),
     model |-> m, image |-> i]

\* The entry the classifier pushes for outcome o of the pass over model m:
\*   {className: MobileNetV3Classes[maxIdx],
\*    confidence: Math.round(confidence * 1000) / 10, metrics: m}
\* (model and image record where the entry comes from; metrics is opaque).
ClassEntry(o, m, i) ==
    [className |-> MobileNetV3Classes(o.maxIdx),
     confidence |-> RoundConfidence(o.confidence),
     model |-> m, image |-> i]

\* One MobileModel.execute of the classifier resolved: the
\* entry is pushed and the loop goes on to the next execute, or, after the
\* last pass, classifier returns and handleCapture finishes:
\*   setClassesInfo(classes); img.release();
classifier(i) ==
    LET done    == Len(tasks[i].executed)
        m       == tasks[i].executed[done]
        classes == Append(tasks[i].classes, ClassEntry(Execute(m, i), m, i))
    IN  IF done < NumClassified
        THEN /\ tasks' = [tasks EXCEPT ![i].classes = classes,
                             ![i].executed = Append(@, ClassifierModel(done))]
             /\ classesInfo' = classesInfo
        ELSE /\ tasks' = [tasks EXCEPT ![i].classes = classes, ![i].pc = "done",
                             ![i].released = @ + 1]
             /\ classesInfo' = SetState(classesInfo, classes)

ModelExecuted(i) ==
    /\ Alive /\ tasks[i].kind = "photo" /\ tasks[i].pc = "exec"
    /\ classifier(i)
    /\ backHandlers' = IF classesInfo' # classesInfo
                       THEN FlushPassiveEffects ELSE backHandlers
    /\ last' = Event("modelExecuted", FALSE)
    /\ UNCHANGED <<isCaptured, currImage, activeModelInfo, alertFrom, exited,
                   mounted, nImages>>
    /\ UNCHANGED outputs

\* A rejected MobileModel.execute after which the entries pushed so far are
\* stored (setClassesInfo reached through a catch or finally).
ModelFailedStoresPartial(i) ==
    /\ Alive /\ tasks[i].kind = "photo" /\ tasks[i].pc = "exec"
    /\ tasks' = [tasks EXCEPT ![i].pc = "failed"]
    /\ classesInfo' = SetState(classesInfo, tasks[i].classes)
    /\ last' = Event("modelFailed", FALSE)
    /\ UNCHANGED <<isCaptured, currImage, activeModelInfo, backHandlers,
                   alertFrom, exited, mounted, nImages>>
    /\ UNCHANGED outputs

\* MobileModel.execute rejected: classifier and handleCapture end at the await.
ModelFailed(i) ==
    /\ Alive /\ tasks[i].kind = "photo" /\ tasks[i].pc = "exec"
    /\ tasks' = [tasks EXCEPT ![i].pc = "failed"]
    /\ last' = Event("modelFailed", FALSE)
    /\ UNCHANGED <<ui, backHandlers, alertFrom, exited, mounted, nImages>>
    /\ UNCHANGED outputs

\* Screen teardown: the effect's cleanup removes the registered listener.
Unmount ==
    /\ Alive /\ mounted
    /\ mounted' = FALSE
    /\ backHandlers' = <<>>
    /\ last' = Event("unmount", FALSE)
    /\ UNCHANGED <<ui, alertFrom, exited, tasks, nImages>>
    /\ UNCHANGED outputs

Next ==
    \/ UseEffect
    \/ PressReturn
    \/ PressSubmit
    \/ BackPress
    \/ DialogCancel
    \/ DialogConfirm
    \/ SelectModel
    \/ FrameArrives
    \/ \E i \in Images : FrameProcessed(i)
    \/ \E i \in Images : FrameFailed(i)
    \/ Capture
    \/ \E i \in Images : CaptureWritten(i)
    \/ \E i \in Images : CaptureWriteFailed(i)
    \/ \E i \in Images : ModelExecuted(i)
    \/ \E i \in Images : ModelFailed(i)
    \/ Unmount

Spec == Init /\ [][Next]_vars

\* The classifier over every confidence a model can report: one capture,
\* its file write and its three passes, all models reporting confidence c.
RoundInit ==
    /\ isCaptured = FALSE
    /\ currImage = ""
    /\ classesInfo = <<>>
    /\ activeModelInfo = 0
    /\ backHandlers = <<>>
    /\ alertFrom = <<>>
    /\ exited = FALSE
    /\ mounted = TRUE
    /\ tasks = [i \in Images |-> NoTask]
    /\ nImages = 0
    /\ \E c \in Confidences :
         outputs = [m \in Models |-> [i \in Images |->
                       [maxIdx |-> m % 2, confidence |-> c]]]
    /\ last = Event("mount", FALSE)

RoundNext ==
    \/ (nImages = 0 /\ Capture)
    \/ \E i \in Images : CaptureWritten(i)
    \/ \E i \in Images : ModelExecuted(i)

RoundSpec == RoundInit /\ [][RoundNext]_vars

\* The screen while the user presses neither Return nor back, the screen
\* stays mounted, and no file write and no model execution fails; every
\* pending file write and model execution eventually resolves.
LiveNext ==
    \/ UseEffect
    \/ PressSubmit
    \/ SelectModel
    \/ FrameArrives
    \/ \E i \in Images : FrameProcessed(i)
    \/ \E i \in Images : FrameFailed(i)
    \/ Capture
    \/ \E i \in Images : CaptureWritten(i)
    \/ \E i \in Images : ModelExecuted(i)

LiveSpec ==
    /\ Init /\ [][LiveNext]_vars
    /\ \A i \in Images : WF_vars(CaptureWritten(i)) /\ WF_vars(ModelExecuted(i))

(* ---------------------------------------------------------------- claims *)

IsFrame(i) == tasks[i].kind = "frame"
IsPhoto(i) == tasks[i].kind = "photo"

\* The handler of image i has ended, by returning or by a rejected await.
Finished(i) == tasks[i].pc \in {"done", "failed"}

\* processImage is running for the live frame i.
Inferring(i) == IsFrame(i) /\ tasks[i].pc = "process"

\* The capture handler of photo i has started and has not stored its list.
Capturing(i) == IsPhoto(i) /\ tasks[i].pc \in {"toFile", "exec"}

\* A MobileModel.execute of the capture classifier is running for photo i.
Classifying(i) == IsPhoto(i) /\ tasks[i].pc = "exec"

\* C1: the screen starts in LivePreview; it goes from LivePreview to Captured
\* only in the step of a capture handler, started in LivePreview, whose file
\* write has resolved, and from Captured to LivePreview only in a Return or
\* hardware-back step; no other step changes isCaptured.
C1_ScreenTransitions ==
    /\ ~isCaptured
    /\ [](\A i \in Images : IsPhoto(i) => ~tasks[i].wasCaptured)
    /\ [][isCaptured' # isCaptured =>
            IF isCaptured'
            THEN /\ last'.op = "captureWritten"
                 /\ \E i \in Images : /\ IsPhoto(i) /\ ~tasks[i].wasCaptured
                                       /\ tasks[i].pc = "toFile"
                                       /\ tasks'[i].pc = "exec"
            ELSE last'.op \in {"return", "back"}]_vars

\* C1 witness: a back press has brought a Captured screen back to LivePreview
\* after frames arrived, so both transitions and other steps have happened.
C1_Witness ==
    /\ ~isCaptured /\ last.op = "back" /\ last.wasCaptured
    /\ \E i \in Images : IsFrame(i)

\* C2 (as stated): whenever the screen is Captured through the capture of
\* photo i, the result list of that capture has been stored.
C2_StoredBeforeCaptured ==
    \A i \in Images :
        (isCaptured /\ IsPhoto(i) /\ tasks[i].shown) => tasks[i].pc = "done"

\* C2 (amended): a capture sets the screen to Captured, and the image path,
\* in the step in which its file write resolves, before any model has run;
\* it stores its result list later, after the third model: a capture still
\* writing has neither shown the screen nor any result, a capture running a
\* model has shown the screen and holds fewer than three results.
C2_CapturedBeforeStored ==
    /\ \A i \in Images : IsPhoto(i) =>
          /\ tasks[i].pc = "toFile" => ~tasks[i].shown /\ tasks[i].classes = <<>>
          /\ tasks[i].pc = "exec" =>
                tasks[i].shown /\ Len(tasks[i].classes) < NumClassified
          /\ tasks[i].pc = "done" =>
                tasks[i].shown /\ Len(tasks[i].classes) = NumClassified
    /\ (last.op = "captureWritten" /\ mounted) =>
          isCaptured /\ currImage # ""

\* C2 witness: the screen is Captured with an empty result list while the
\* capture that set it is still running its models.
C2_Witness ==
    /\ isCaptured /\ classesInfo = <<>> /\ last.op = "modelExecuted"
    /\ \E i \in Images : Classifying(i) /\ currImage = "file://" \o toFile(i)

\* C3: a frame delivered to the live-frame handler while the screen is
\* Captured is released at once and never reaches processImage.
C3_CapturedFramesSkipped ==
    \A i \in Images : (IsFrame(i) /\ tasks[i].wasCaptured) =>
        /\ ~tasks[i].processed
        /\ tasks[i].released = 1
        /\ tasks[i].pc = "done"

\* C3 witness: a frame has been delivered while the screen was Captured.
C3_Witness ==
    /\ last.op = "frame" /\ isCaptured
    /\ IsFrame(nImages) /\ tasks[nImages].wasCaptured

\* C4: every image is released at most once, and exactly once when its
\* handler has finished, whether the handler returned or an await rejected.
C4_ReleasedExactlyOnce ==
    \A i \in Images :
        /\ tasks[i].released <= 1
        /\ Finished(i) => tasks[i].released = 1

\* C5: no frame that arrives while a capture handler is running (from its
\* start until it has stored its result list) is passed to processImage.
C5_NoInferenceDuringCapture ==
    (last.op = "frame" /\ \E j \in Images : Capturing(j)) =>
        ~tasks[nImages].processed

\* C6: no processImage call for a live frame is in progress while a
\* MobileModel.execute of the capture classifier is in progress.
C6_NoContention ==
    ~(\E i, j \in Images : Inferring(i) /\ Classifying(j))

\* C7: right after Return is pressed on the Captured screen the result list
\* is empty, the image path is the empty string and the screen is
\* LivePreview, whether or not the classification has finished.
C7_ReturnClears ==
    last.op = "return" =>
        /\ last.wasCaptured
        /\ classesInfo = <<>> /\ currImage = "" /\ ~isCaptured

\* C7 witness: Return was pressed while the classification of the captured
\* photo was still running.
C7_Witness ==
    /\ last.op = "return"
    /\ \E i \in Images : Classifying(i)

\* C8: a back press on the Captured screen acts like Return and shows no
\* quit dialog; a back press on the LivePreview screen shows the quit dialog
\* and clears nothing.
C8_BackUsesCurrentFlag ==
    last.op = "back" =>
        IF last.wasCaptured
        THEN ~dialogOpen /\ classesInfo = <<>> /\ currImage = "" /\ ~isCaptured
        ELSE dialogOpen

\* C9 (as stated): when the quit dialog raised by a back press in LivePreview
\* is cancelled, the screen is still LivePreview and result list, image path
\* and selected model are what they were at the back press.
C9_CancelFindsStateOfBackPress ==
    [][(dialogOpen /\ last'.op = "cancel" /\ ~alertFrom[1]) =>
            (~isCaptured' /\ ui' = alertFrom)]_vars

\* C9 (amended): the back press that opens the quit dialog reports the press
\* as handled and changes none of screen state, result list, image path and
\* selected model; accepting the dialog exits the app; cancelling it changes
\* none of the four either.
C9_QuitDialogFrame ==
    /\ [](last.op = "back" => last.returned)
    /\ [][/\ (~dialogOpen /\ dialogOpen') => (last'.op = "back" /\ UNCHANGED ui)
          /\ (dialogOpen /\ ~dialogOpen') =>
                \/ last'.op = "confirm" /\ exited' /\ UNCHANGED ui
                \/ last'.op = "cancel" /\ ~exited' /\ UNCHANGED ui]_vars

\* C9 witness: the dialog opened by a back press in LivePreview was cancelled.
C9_Witness ==
    /\ last.op = "cancel" /\ ~isCaptured /\ ~exited /\ ~dialogOpen
    /\ backHandlers = <<FALSE>>

\* C10: selecting a model leaves screen state, result list and image path
\* unchanged, and every capture executes the first three registry models in
\* registry order whatever model is selected.
C10_SelectionFrame ==
    /\ [](\A i \in Images : IsPhoto(i) =>
            /\ Len(tasks[i].executed) <= NumClassified
            /\ \A k \in 1..Len(tasks[i].executed) : tasks[i].executed[k] = k - 1
            /\ tasks[i].pc = "done" => Len(tasks[i].executed) = NumClassified)
    /\ [][activeModelInfo' # activeModelInfo =>
            /\ last'.op = "select"
            /\ UNCHANGED <<isCaptured, classesInfo, currImage>>]_vars

\* C10 witness: a capture made after another model was selected has run all
\* its models.
C10_Witness ==
    /\ activeModelInfo # 0
    /\ \E i \in Images : IsPhoto(i) /\ tasks[i].pc = "done"
                          /\ tasks[i].executed = <<0, 1, 2>>

\* C11: when the three executions of a capture have succeeded, the list the
\* classifier returned holds exactly three entries, the k-th made from what
\* the k-th registry model reported for the photo (its label looked up from
\* that model's maxIdx); and the models run one after the other: a pass
\* starts only when every earlier pass has delivered its entry.
C11_ClassifierOutput ==
    \A i \in Images : IsPhoto(i) =>
        /\ tasks[i].pc = "exec" =>
              Len(tasks[i].executed) = Len(tasks[i].classes) + 1
        /\ tasks[i].pc = "done" =>
              /\ Len(tasks[i].classes) = 3
              /\ Len(tasks[i].executed) = 3
              /\ \A k \in 1..3 :
                    LET o == Execute(k - 1, i)
                        e == tasks[i].classes[k]
                    IN  /\ e.model = k - 1 /\ e.image = i
                        /\ e.className = MobileNetV3Classes(o.maxIdx)
                        /\ e.confidence = RoundConfidence(o.confidence)

\* C11 witness: a capture has finished its three passes and its list is the
\* stored result list.
C11_Witness ==
    \E i \in Images : /\ IsPhoto(i) /\ tasks[i].pc = "done"
                       /\ classesInfo = tasks[i].classes
                       /\ Len(classesInfo) = 3

\* C12: for every confidence c in [0, 1] a model reports, the confidence
\* stored in the classification result is c * 1000 rounded to the nearest
\* integer (halves up) over 10: a percentage with one decimal place, within
\* [0.0, 100.0] and at most 0.05 away from 100 * c.  In units of 0.0001 for
\* c and 0.1 % for the result r: 0 <= r <= 1000 and -5 <= c - 10 r < 5.
C12_ConfidenceRounded ==
    \A i \in Images : IsPhoto(i) =>
        \A k \in 1..Len(tasks[i].classes) :
            LET c == Execute(tasks[i].classes[k].model, i).confidence
                r == tasks[i].classes[k].confidence
            IN  /\ c \in Confidences
                /\ r \in 0..1000
                /\ c - 10 * r \in -5..4
                /\ tasks[i].pc = "done" => classesInfo[k].confidence = r

\* C12 witness: a stored result whose confidence was rounded up from a half
\* (c = 0.9995 stored as 100.0 %).
C12_Witness ==
    /\ classesInfo # <<>>
    /\ classesInfo[1].confidence = 1000
    /\ Execute(0, 1).confidence = 9995

\* The capture handler of photo i ended at a rejected await.
Failed(i) == IsPhoto(i) /\ tasks[i].pc = "failed"

\* C13 (as stated): right after a step of the capture handler has failed
\* (the file write or a model execution), the screen is Captured and the
\* result list is empty.
C13_FailureShowsLoading ==
    (mounted /\ last.op \in {"captureWriteFailed", "modelFailed"}) =>
        (isCaptured /\ classesInfo = <<>>)

\* C13 (amended): a failed capture handler changes no state in the step in
\* which it fails and stores no result list afterwards.  If a model
\* execution failed, the handler had already set the screen to Captured and
\* the image path; if the file write failed it had set nothing, so the
\* screen is not brought to Captured by that capture.  The result list goes
\* from empty to non-empty only in the step in which a capture completes its
\* third execution: a failed capture leaves the loading indicator up until
\* the user leaves or another capture in flight stores its list.
C13_FailureStoresNothing ==
    /\ [](\A i \in Images : Failed(i) =>
            /\ tasks[i].shown <=> tasks[i].executed # <<>>
            /\ Len(tasks[i].classes) < NumClassified
            /\ \A k \in 1..Len(classesInfo) : classesInfo[k].image # i)
    /\ [][/\ (\E i \in Images : ~Failed(i) /\ Failed(i)') => UNCHANGED ui
          /\ (classesInfo = <<>> /\ classesInfo' # <<>>) =>
                \E i \in Images : /\ Classifying(i) /\ tasks'[i].pc = "done"
                                   /\ classesInfo' = tasks'[i].classes]_vars

\* C13 witness: the second model execution of a capture failed and the
\* screen shows the photo with an empty result list.
C13_Witness ==
    /\ last.op = "modelFailed" /\ isCaptured /\ classesInfo = <<>>
    /\ \E i \in Images : /\ Failed(i) /\ Len(tasks[i].classes) = 1
                          /\ currImage = "file://" \o toFile(i)

\* C14: whenever the screen is LivePreview the result list is empty and the
\* image path is the empty string, also when the classification of a photo
\* completes after Return or back was pressed.
C14_LivePreviewIsClean ==
    (mounted /\ ~isCaptured) => (classesInfo = <<>> /\ currImage = "")

\* C15: whenever the screen is Captured with a non-empty result list, the
\* list is the classification of the photo at the current image path.
C15_ResultsMatchImage ==
    (mounted /\ isCaptured /\ classesInfo # <<>>) =>
        \A k \in 1..Len(classesInfo) :
            currImage = "file://" \o toFile(classesInfo[k].image)

\* C16 (as stated): while the screen is mounted exactly one hardware-back
\* handler is registered at any time.
C16_ExactlyOneHandler ==
    mounted => Len(backHandlers) = 1

\* C16 (amended): never more than one hardware-back handler is registered;
\* none is registered between the first render and the first run of the
\* effect; from then on, while the screen stays mounted, exactly one is:
\* every run of the effect removes the registered handler and registers one
\* closing over the Captured flag of the render it belongs to; after
\* teardown none remains.
C16_OneHandlerOnceRegistered ==
    /\ [](Len(backHandlers) <= 1)
    /\ [](~mounted => backHandlers = <<>>)
    /\ [][/\ (backHandlers # <<>> /\ mounted') => Len(backHandlers') = 1
          /\ (backHandlers' # backHandlers /\ mounted') =>
                backHandlers' = <<isCaptured>>]_vars

\* C16 witness: the effect has run again after the Captured flag changed.
C16_Witness ==
    /\ mounted /\ isCaptured /\ last.op = "effect"
    /\ backHandlers = <<TRUE>>

\* C17: after a capture action in LivePreview, if the file write and the
\* model executions complete successfully and neither Return nor back is
\* pressed, the screen eventually is Captured with a result list of three
\* entries and the image path 'file://' + the path written for that photo,
\* and the photo is eventually released.
C17_CaptureEventuallyShown ==
    \A i \in Images :
        /\ IsPhoto(i) ~> (/\ isCaptured /\ Len(classesInfo) = 3
                          /\ currImage = "file://" \o toFile(i))
        /\ IsPhoto(i) ~> (tasks[i].released = 1)

====
